---------------------------- MODULE Spec2Model ----------------------------
(***************************************************************************)
(* A model of the micromouse simulator's core: the A* pathfinder of        *)
(* src/pathfinding.py, the recursive-backtracker maze generator of         *)
(* src/maze.py, the goal placement of find_start_end, the agent of         *)
(* src/entities/mouse.py, the older agent of src/main.py and the driving   *)
(* loop of src/simulation/main.py with its GameState.                      *)
(*                                                                         *)
(* Cells are <<row, col>> pairs, 0-based as in the source; a maze is a     *)
(* sequence of rows, so the source's maze[y][x] is maze[y + 1][x + 1].     *)
(***************************************************************************)
EXTENDS Integers, Sequences, FiniteSets, Bags, TLC

VARIABLES
    maze,        \* the grid: a sequence of rows of tags "#", ".", "S", "E"
    maze_in,     \* the grid as it was handed to astar (history variable)
    start,       \* astar's start argument
    end_points,  \* astar's end_points argument, as a set of cells
    search,      \* astar's locals (open_set, came_from, cost_so_far, ...)
    width,       \* create_maze's argument width
    height,      \* create_maze's argument height
    stack,       \* the calls of carve_path in progress, innermost last
    mouse,       \* the Mouse object (None before it is made)
    stepper,     \* the Mouse object of src/main.py (None when there is none)
    game_state,  \* the GameState object (None when there is none)
    pc           \* where the program stands

vars == <<maze, maze_in, start, end_points, search, width, height, stack, mouse,
          stepper, game_state, pc>>

\* The objects of the driving loop, which astar, the generator and the
\* methods of Mouse never touch.
sim_vars == <<stepper, game_state>>

\* The generator's variables, which astar never touches.
gen_vars == <<width, height, stack>>

----------------------------------------------------------------------------
(* Bounds of the inputs the pathfinder and the generator are run on. *)

\* astar is run on every grid of every shape with at most this many cells.
MaxCells == 6
\* Largest number of cells in a goal collection.
MaxGoals == 2
\* The agent is driven on every grid of every shape with at most this many
\* cells.
MaxMouseCells == 5
\* Re-discovered cells and stale heap entries need eight cells: astar is run
\* with one goal on every grid of more than MaxCells and at most this many
\* cells.
MaxWideCells == 8
\* constants.py sets MAZE_WIDTH and MAZE_HEIGHT to 16, a size whose mazes
\* cannot be enumerated: the generator is checked at this scaled size.  The
\* goal block's first row and column, MAZE_HEIGHT // 2 - 1, is odd at 8 as
\* it is at 16.
MAZE_WIDTH == 8
MAZE_HEIGHT == 8
\* create_maze is run for every width in MinDim .. MAZE_WIDTH and every
\* height in MinDim .. MAZE_HEIGHT.
MinDim == 4

----------------------------------------------------------------------------
(* Plain helpers. *)

\* Python's None where a cell is expected: no cell equals it.
None == <<>>

Abs(n) == IF n < 0 THEN -n ELSE n

SetMin(S) == CHOOSE m \in S : \A n \in S : m <= n

Reverse(s) == [i \in 1..Len(s) |-> s[Len(s) + 1 - i]]

\* dict[key] = value
Put(dict, key, value) ==
    [k \in DOMAIN dict \cup {key} |-> IF k = key THEN value ELSE dict[k]]

\* len(maze), len(maze[0])
NumRows(m) == Len(m)

NumCols(m) == Len(m[1])

\* maze[y][x]
Tag(m, y, x) == m[y + 1][x + 1]

CellsOf(m) == (0..NumRows(m) - 1) \X (0..NumCols(m) - 1)

----------------------------------------------------------------------------
(* src/pathfinding.py *)

\* Mutant: twice the Manhattan distance.
heuristic_Doubled(a, e) == 2 * (Abs(a[1] - e[1]) + Abs(a[2] - e[2]))

\* heuristic(a, end_points) when end_points is one cell (a tuple).
heuristic(a, e) == Abs(a[1] - e[1]) + Abs(a[2] - e[2])

\* Mutant: the distance to the farthest goal cell is taken.
heuristic_multi_Farthest(a, ends) ==
    LET D == {Abs(a[1] - e[1]) + Abs(a[2] - e[2]) : e \in ends}
    IN  CHOOSE m \in D : \A n \in D : m >= n

\* heuristic(a, end_points) when end_points is a collection of cells.
heuristic_multi(a, ends) == SetMin({Abs(a[1] - e[1]) + Abs(a[2] - e[2]) : e \in ends})

in_bounds(m, ny, nx) == 0 <= ny /\ ny < NumRows(m) /\ 0 <= nx /\ nx < NumCols(m)

\* Mutant: the wall test is left out.
get_neighbors_NoWallTest(m, pos) ==
    LET y == pos[1]
        x == pos[2]
        cand == << <<y - 1, x>>, <<y + 1, x>>, <<y, x - 1>>, <<y, x + 1>> >>
        ok(c) == in_bounds(m, c[1], c[2])
    IN  SelectSeq(cand, ok)

\* Mutant: the direction up is left out.
get_neighbors_NoUp(m, pos) ==
    LET y == pos[1]
        x == pos[2]
        cand == << <<y + 1, x>>, <<y, x - 1>>, <<y, x + 1>> >>
        ok(c) == in_bounds(m, c[1], c[2]) /\ Tag(m, c[1], c[2]) # "#"
    IN  SelectSeq(cand, ok)

\* Mutant: the cell down and to the right is a neighbour too.
get_neighbors_Diagonal(m, pos) ==
    LET y == pos[1]
        x == pos[2]
        cand == << <<y - 1, x>>, <<y + 1, x>>, <<y, x - 1>>, <<y, x + 1>>,
                   <<y + 1, x + 1>> >>
        ok(c) == in_bounds(m, c[1], c[2]) /\ Tag(m, c[1], c[2]) # "#"
    IN  SelectSeq(cand, ok)

\* get_neighbors(maze, pos): up, down, left, right, kept when in bounds and
\* not a wall.
get_neighbors(m, pos) ==
    LET y == pos[1]
        x == pos[2]
        cand == << <<y - 1, x>>, <<y + 1, x>>, <<y, x - 1>>, <<y, x + 1>> >>
        ok(c) == in_bounds(m, c[1], c[2]) /\ Tag(m, c[1], c[2]) # "#"
    IN  SelectSeq(cand, ok)

\* Python's order on the heap's (priority, (row, col)) tuples.
EntryLess(a, b) ==
    \/ a[1] < b[1]
    \/ a[1] = b[1] /\ a[2][1] < b[2][1]
    \/ a[1] = b[1] /\ a[2][1] = b[2][1] /\ a[2][2] < b[2][2]

\* Mutant: the heap gives its greatest entry.
HeapTop_Greatest(open_set) ==
    CHOOSE e \in BagToSet(open_set) :
        \A f \in BagToSet(open_set) : ~EntryLess(e, f)

\* Mutant: among the entries of least priority the heap gives the one with
\* the greatest cell.
HeapTop_GreatestCell(open_set) ==
    CHOOSE e \in BagToSet(open_set) :
        \A f \in BagToSet(open_set) :
            \/ e[1] < f[1]
            \/ e[1] = f[1] /\ ~EntryLess(<<0, e[2]>>, <<0, f[2]>>)

\* heapq.heappop(open_set): a least entry of the heap.
HeapTop(open_set) ==
    CHOOSE e \in BagToSet(open_set) :
        \A f \in BagToSet(open_set) : ~EntryLess(f, e)

heappop(open_set) == open_set (-) SetToBag({HeapTop(open_set)})

heappush(open_set, e) == open_set (+) SetToBag({e})

\* The locals of astar after lines 48-53.
AstarLocals(st) ==
    [ open_set    |-> SetToBag({<<0, st>>}),
      came_from   |-> (st :> None),
      cost_so_far |-> (st :> 0),
      explored    |-> {},
      reached_end |-> None,
      current     |-> None,
      path        |-> <<>>,
      status      |-> "loop",
      result      |-> <<>> ]

\* priority = new_cost + min(heuristic(next, end) for end in end_points)
Priority(new_cost, next, ends) ==
    new_cost + SetMin({heuristic(next, e) : e \in ends})

\* Mutant: a cell found again at a lower cost keeps its first predecessor.
Relax_KeepFirstParent(s, current, next, ends) ==
    LET new_cost == s.cost_so_far[current] + 1
    IN  IF next \notin DOMAIN s.cost_so_far \/ new_cost < s.cost_so_far[next]
        THEN IF ends = {}
             THEN [s EXCEPT !.cost_so_far = Put(s.cost_so_far, next, new_cost),
                            !.status = "raised",
                            !.result = <<"ValueError">>]
             ELSE [s EXCEPT !.cost_so_far = Put(s.cost_so_far, next, new_cost),
                            !.open_set = heappush(s.open_set,
                                           <<Priority(new_cost, next, ends), next>>),
                            !.came_from = IF next \in DOMAIN s.came_from
                                          THEN s.came_from
                                          ELSE Put(s.came_from, next, current)]
        ELSE s

\* Mutant: a neighbour is pushed again when its cost is matched, not only
\* when it is lowered.
Relax_NonStrict(s, current, next, ends) ==
    LET new_cost == s.cost_so_far[current] + 1
    IN  IF next \notin DOMAIN s.cost_so_far \/ new_cost <= s.cost_so_far[next]
        THEN IF ends = {}
             THEN [s EXCEPT !.cost_so_far = Put(s.cost_so_far, next, new_cost),
                            !.status = "raised",
                            !.result = <<"ValueError">>]
             ELSE [s EXCEPT !.cost_so_far = Put(s.cost_so_far, next, new_cost),
                            !.open_set = heappush(s.open_set,
                                           <<Priority(new_cost, next, ends), next>>),
                            !.came_from = Put(s.came_from, next, current)]
        ELSE s

\* Lines 68-76 for one neighbour: the body of the for loop.  min() of an
\* empty sequence raises ValueError after cost_so_far[next] was assigned.
Relax(s, current, next, ends) ==
    LET new_cost == s.cost_so_far[current] + 1
    IN  IF next \notin DOMAIN s.cost_so_far \/ new_cost < s.cost_so_far[next]
        THEN IF ends = {}
             THEN [s EXCEPT !.cost_so_far = Put(s.cost_so_far, next, new_cost),
                            !.status = "raised",
                            !.result = <<"ValueError">>]
             ELSE [s EXCEPT !.cost_so_far = Put(s.cost_so_far, next, new_cost),
                            !.open_set = heappush(s.open_set,
                                           <<Priority(new_cost, next, ends), next>>),
                            !.came_from = Put(s.came_from, next, current)]
        ELSE s

\* Lines 67-80: the for loop over get_neighbors(maze, current), from its
\* i-th element on; an exception leaves the loop.
RECURSIVE Expand(_, _, _, _, _)
Expand(s, current, ns, i, ends) ==
    IF i > Len(ns) \/ s.status = "raised"
    THEN s
    ELSE Expand(Relax(s, current, ns[i], ends), current, ns, i + 1, ends)

\* Mutant: explored.add(current) comes before the goal test.
LoopIter_ExploreFirst(m, ends, s) ==
    LET top == HeapTop(s.open_set)
        current == top[2]
        popped == [s EXCEPT !.open_set = heappop(s.open_set),
                            !.current = current,
                            !.explored = s.explored \cup {current}]
    IN  IF current \in ends
        THEN [popped EXCEPT !.reached_end = current,
                            !.status = "reconstruct"]
        ELSE Expand(popped, current, get_neighbors(m, current), 1, ends)

\* Lines 55-80: one iteration of the while loop, open_set not empty.
LoopIter(m, ends, s) ==
    LET top == HeapTop(s.open_set)
        current == top[2]
        popped == [s EXCEPT !.open_set = heappop(s.open_set),
                            !.current = current]
    IN  IF current \in ends
        THEN [popped EXCEPT !.reached_end = current,
                            !.status = "reconstruct"]
        ELSE Expand([popped EXCEPT !.explored = s.explored \cup {current}],
                    current, get_neighbors(m, current), 1, ends)

\* Lines 82-84: the loop ran out of entries: return None, explored, cost_so_far.
\* A result's path is None when its field found is FALSE.
NoPath(s) ==
    [s EXCEPT !.status = "returned",
              !.result = [found |-> FALSE, path |-> <<>>,
                          explored |-> s.explored,
                          cost_so_far |-> s.cost_so_far]]

\* Lines 89-91: one iteration of the walk back along came_from.
WalkBack(s) ==
    [s EXCEPT !.path = Append(s.path, s.current),
              !.current = s.came_from[s.current]]

\* Lines 92-95: append start, reverse, return.
Finish(st, s) ==
    LET p == Reverse(Append(s.path, st))
    IN  [s EXCEPT !.path = p,
                  !.status = "returned",
                  !.result = [found |-> TRUE, path |-> p,
                              explored |-> s.explored,
                              cost_so_far |-> s.cost_so_far]]

\* One step of astar from locals s, whichever applies.
AstarStepOf(m, st, ends, s) ==
    IF s.status = "loop"
    THEN IF s.open_set = EmptyBag THEN NoPath(s) ELSE LoopIter(m, ends, s)
    ELSE IF s.current # st THEN WalkBack(s) ELSE Finish(st, s)

\* astar(maze, start, end_points) run to its end: the returned triple, or
\* <<"ValueError">>.
RECURSIVE AstarRun(_, _, _, _)
AstarRun(m, st, ends, s) ==
    IF s.status \in {"returned", "raised"}
    THEN s
    ELSE AstarRun(m, st, ends, AstarStepOf(m, st, ends, s))

astar(m, st, ends) == AstarRun(m, st, ends, AstarLocals(st)).result

----------------------------------------------------------------------------
(* The pathfinder run on every small grid, start and goal collection. *)

\* The shapes rows x cols of the grids astar is run on.
Shapes == {sh \in (1..MaxCells) \X (1..MaxCells) : sh[1] * sh[2] <= MaxCells}

Grids(sh) == [1..sh[1] -> [1..sh[2] -> {"#", "."}]]

\* Every cell of the grid, one coordinate above its first cell and one to
\* the right of its last cell.
Starts(m) == CellsOf(m) \cup {<<-1, 0>>, <<NumRows(m) - 1, NumCols(m)>>}

GoalSets(m) == {g \in SUBSET CellsOf(m) : Cardinality(g) <= MaxGoals}

InitAstar ==
    /\ \E sh \in Shapes : maze \in Grids(sh)
    /\ maze_in = maze
    /\ start \in Starts(maze)
    /\ end_points \in GoalSets(maze)
    /\ search = AstarLocals(start)
    /\ width = NumCols(maze)
    /\ height = NumRows(maze)
    /\ stack = <<>>
    /\ mouse = None
    /\ stepper = None
    /\ game_state = None
    /\ pc = "astar"

\* Mutant: the cells explored so far are marked in the grid.
AstarMaze_MarkExplored(m, s) ==
    [y \in 1..NumRows(m) |->
        [x \in 1..NumCols(m) |->
            IF <<y - 1, x - 1>> \in s.explored THEN "x" ELSE m[y][x]]]

\* astar never assigns to maze or to one of its rows: the grid after a step
\* of astar.
AstarMaze(m, s) == m

\* while open_set: pop; a goal ends the loop.
AstarPopGoal ==
    /\ pc = "astar" /\ search.status = "loop"
    /\ search.open_set # EmptyBag
    /\ HeapTop(search.open_set)[2] \in end_points
    /\ search' = LoopIter(maze, end_points, search)
    /\ maze' = AstarMaze(maze, search)
    /\ UNCHANGED <<maze_in, start, end_points, gen_vars, mouse, pc, sim_vars>>

\* while open_set: pop; expand a cell that is no goal.
AstarExpand ==
    /\ pc = "astar" /\ search.status = "loop"
    /\ search.open_set # EmptyBag
    /\ HeapTop(search.open_set)[2] \notin end_points
    /\ search' = LoopIter(maze, end_points, search)
    /\ maze' = AstarMaze(maze, search)
    /\ UNCHANGED <<maze_in, start, end_points, gen_vars, mouse, pc, sim_vars>>

\* The loop ends with no goal reached.
AstarNoPath ==
    /\ pc = "astar" /\ search.status = "loop"
    /\ search.open_set = EmptyBag
    /\ search' = NoPath(search)
    /\ maze' = AstarMaze(maze, search)
    /\ UNCHANGED <<maze_in, start, end_points, gen_vars, mouse, pc, sim_vars>>

\* while current != start: path.append(current); current = came_from[current]
AstarWalkBack ==
    /\ pc = "astar" /\ search.status = "reconstruct"
    /\ search.current # start
    /\ search' = WalkBack(search)
    /\ maze' = AstarMaze(maze, search)
    /\ UNCHANGED <<maze_in, start, end_points, gen_vars, mouse, pc, sim_vars>>

\* path.append(start); path.reverse(); return
AstarFinish ==
    /\ pc = "astar" /\ search.status = "reconstruct"
    /\ search.current = start
    /\ search' = Finish(start, search)
    /\ maze' = AstarMaze(maze, search)
    /\ UNCHANGED <<maze_in, start, end_points, gen_vars, mouse, pc, sim_vars>>

NextAstar ==
    \/ AstarPopGoal
    \/ AstarExpand
    \/ AstarNoPath
    \/ AstarWalkBack
    \/ AstarFinish

SpecAstar == InitAstar /\ [][NextAstar]_vars

\* The shapes of the wider grids, and astar's start on each of them with
\* each single goal.
WideShapes ==
    {sh \in (1..MaxWideCells) \X (1..MaxWideCells) :
        MaxCells < sh[1] * sh[2] /\ sh[1] * sh[2] <= MaxWideCells}

InitAstarWide ==
    /\ \E sh \in WideShapes : maze \in Grids(sh)
    /\ maze_in = maze
    /\ start \in Starts(maze)
    /\ \E g \in CellsOf(maze) : end_points = {g}
    /\ search = AstarLocals(start)
    /\ width = NumCols(maze)
    /\ height = NumRows(maze)
    /\ stack = <<>>
    /\ mouse = None
    /\ stepper = None
    /\ game_state = None
    /\ pc = "astar"

SpecAstarWide == InitAstarWide /\ [][NextAstar]_vars

----------------------------------------------------------------------------
(* src/maze.py *)

\* maze[y][x] = tag
SetTag(m, y, x, tag) == [m EXCEPT ![y + 1][x + 1] = tag]

\* Mutant: the cell below the start is opened too.
NewMaze_OpenBelow(w, h) ==
    LET walls == [y \in 1..h |-> [x \in 1..w |-> "#"]]
    IN  SetTag(SetTag(SetTag(walls, 0, 0, "."), 0, 1, "."), 1, 0, ".")

\* Lines 7-12 of create_maze: a grid of walls with the start configuration.
NewMaze(w, h) ==
    LET walls == [y \in 1..h |-> [x \in 1..w |-> "#"]]
    IN  SetTag(SetTag(SetTag(walls, 0, 0, "."), 0, 1, "."), 1, 0, "#")

\* directions, as (dx, dy) pairs.
Directions == {<<0, 2>>, <<2, 0>>, <<0, -2>>, <<-2, 0>>}

\* Line 15 and the call itself: carve_path(x, y) marks its cell and starts
\* its loop.
CarveEnter(m, x, y) ==
    [maze |-> SetTag(m, y, x, "."), frame |-> [x |-> x, y |-> y]]

\* Mutant: the cell between is not opened.
CarveTry_NoMid(m, w, h, x, y, d) ==
    LET nx == x + d[1]
        ny == y + d[2]
    IN  IF 0 <= nx /\ nx < w /\ 0 <= ny /\ ny < h /\ Tag(m, ny, nx) = "#"
        THEN [enter |-> TRUE, nx |-> nx, ny |-> ny, maze |-> m]
        ELSE [enter |-> FALSE, nx |-> nx, ny |-> ny, maze |-> m]

\* Mutant: the target is entered whether or not it is still a wall.
CarveTry_NoWallTest(m, w, h, x, y, d) ==
    LET nx == x + d[1]
        ny == y + d[2]
    IN  IF 0 <= nx /\ nx < w /\ 0 <= ny /\ ny < h
        THEN [enter |-> TRUE, nx |-> nx, ny |-> ny,
              maze |-> SetTag(m, ny - (d[2] \div 2), nx - (d[1] \div 2), ".")]
        ELSE [enter |-> FALSE, nx |-> nx, ny |-> ny, maze |-> m]

\* Lines 19-21: one iteration of carve_path(x, y)'s loop, for direction d, up
\* to the recursive call: whether the call is made, its arguments, the grid.
CarveTry(m, w, h, x, y, d) ==
    LET nx == x + d[1]
        ny == y + d[2]
    IN  IF 0 <= nx /\ nx < w /\ 0 <= ny /\ ny < h /\ Tag(m, ny, nx) = "#"
        THEN [enter |-> TRUE, nx |-> nx, ny |-> ny,
              maze |-> SetTag(m, ny - (d[2] \div 2), nx - (d[1] \div 2), ".")]
        ELSE [enter |-> FALSE, nx |-> nx, ny |-> ny, maze |-> m]

\* The four cells of the goal block, in the order find_start_end marks them.
GoalBlock ==
    LET center_y == (MAZE_HEIGHT \div 2) - 1
        center_x == (MAZE_WIDTH \div 2) - 1
    IN  << <<center_y, center_x>>, <<center_y, center_x + 1>>,
           <<center_y + 1, center_x>>, <<center_y + 1, center_x + 1>> >>

\* Lines 37-41: maze[y][x] = "E" for the block's cells from the i-th on; an
\* index past the grid raises IndexError and leaves the rest unmarked.
RECURSIVE MarkGoals(_, _)
MarkGoals(r, i) ==
    IF i > Len(GoalBlock) \/ r.raised
    THEN r
    ELSE LET c == GoalBlock[i]
         IN  IF c[1] >= NumRows(r.maze) \/ c[2] >= NumCols(r.maze)
             THEN [r EXCEPT !.raised = TRUE]
             ELSE MarkGoals([r EXCEPT !.maze = SetTag(r.maze, c[1], c[2], "E"),
                                      !.end_points = Append(r.end_points, c)],
                            i + 1)

\* Mutant: the goal cells are listed and the grid is left as carved.
find_start_end_NoMark(m) ==
    [maze |-> SetTag(SetTag(m, 0, 0, "S"), 0, 1, "."),
     start |-> <<0, 0>>, end_points |-> GoalBlock, raised |-> FALSE]

\* Mutant: the start cell is not marked.
find_start_end_NoStart(m) ==
    LET marked == MarkGoals([maze |-> m, start |-> <<0, 0>>,
                             end_points |-> <<>>, raised |-> FALSE], 1)
    IN  IF marked.raised
        THEN marked
        ELSE [marked EXCEPT !.maze = SetTag(marked.maze, 0, 1, ".")]

\* find_start_end(maze): the grid it leaves, and (start, end_points) or the
\* IndexError.
find_start_end(m) ==
    LET marked == MarkGoals([maze |-> SetTag(m, 0, 0, "S"), start |-> <<0, 0>>,
                             end_points |-> <<>>, raised |-> FALSE], 1)
    IN  IF marked.raised
        THEN marked
        ELSE [marked EXCEPT !.maze = SetTag(marked.maze, 0, 1, ".")]

Range(s) == {s[i] : i \in DOMAIN s}

----------------------------------------------------------------------------
(* src/entities/mouse.py *)

\* Mouse.__init__(x, y).  The attribute path is a list or None: path_none
\* tells that it is None (and then the field path is left empty).
Mouse(x, y) ==
    [ pos          |-> <<y, x>>,
      path         |-> <<>>,
      path_none    |-> FALSE,
      path_index   |-> 0,
      history      |-> <<>>,
      has_explored |-> FALSE ]

\* What a method leaves behind: the object, and the exception it raised
\* ("" when it returned).
Outcome(self, raised) == [self |-> self, raised |-> raised]

\* Lines 43-47 of update: the first search.  A ValueError of astar leaves
\* the object as it was.
Mouse_plan(self, m, ends) ==
    LET ended == AstarRun(m, self.pos, ends, AstarLocals(self.pos))
        r == ended.result
    IN  IF ended.status = "raised"
        THEN Outcome(self, "ValueError")
        ELSE Outcome([self EXCEPT !.path = IF r.found THEN r.path ELSE <<>>,
                                  !.path_none = ~r.found,
                                  !.has_explored = TRUE,
                                  !.history = IF r.found THEN <<self.pos>>
                                              ELSE self.history],
                     "")

\* Mutant: the cursor advances and the position stays.
Mouse_move_StayPut(self) ==
    [self EXCEPT !.history = Append(self.history, self.pos),
                 !.path_index = self.path_index + 1]

\* Lines 51-57 of update: the move.  The position appended to history is the
\* one just assigned.
Mouse_move(self) ==
    LET next_pos == self.path[self.path_index + 1]
    IN  [self EXCEPT !.pos = next_pos,
                     !.history = Append(self.history, next_pos),
                     !.path_index = self.path_index + 1]

\* Mutant: at the end of the path the first cell is entered again.
Mouse_update_Wrap(self, m, ends) ==
    IF self.path = <<>> /\ ~self.has_explored
    THEN Mouse_plan(self, m, ends)
    ELSE IF self.path_none
    THEN Outcome(self, "TypeError")
    ELSE IF self.path_index < Len(self.path)
    THEN Outcome(Mouse_move(self), "")
    ELSE IF self.path # <<>>
    THEN Outcome([self EXCEPT !.pos = self.path[1]], "")
    ELSE Outcome(self, "")

\* Mouse.update(maze, end_points).  "not self.path" holds of an empty list
\* and of None; len(self.path) raises TypeError when path is None.
Mouse_update(self, m, ends) ==
    IF self.path = <<>> /\ ~self.has_explored
    THEN Mouse_plan(self, m, ends)
    ELSE IF self.path_none
    THEN Outcome(self, "TypeError")
    ELSE IF self.path_index < Len(self.path)
    THEN Outcome(Mouse_move(self), "")
    ELSE Outcome(self, "")

\* Mutant: path_index is decremented without the floor at 0.
Mouse_go_back_NoFloor(self) ==
    IF self.history # <<>>
    THEN LET popped == SubSeq(self.history, 1, Len(self.history) - 1)
             left == [self EXCEPT !.history = popped]
         IN  IF popped = <<>> /\ self.path_none
             THEN Outcome(left, "TypeError")
             ELSE IF popped = <<>> /\ self.path = <<>>
             THEN Outcome(left, "IndexError")
             ELSE Outcome([left EXCEPT !.pos = IF popped # <<>>
                                                THEN popped[Len(popped)]
                                                ELSE self.path[1],
                                       !.path_index = self.path_index - 1],
                          "")
    ELSE Outcome(self, "")

\* Mutant: the position is taken from the top of history before the pop.
Mouse_go_back_TopFirst(self) ==
    IF self.history # <<>>
    THEN Outcome([self EXCEPT !.pos = self.history[Len(self.history)],
                              !.history = SubSeq(self.history, 1,
                                                 Len(self.history) - 1),
                              !.path_index = IF self.path_index > 0
                                             THEN self.path_index - 1 ELSE 0],
                 "")
    ELSE Outcome(self, "")

\* Mouse.go_back().  self.path[0] raises TypeError when path is None and
\* IndexError when it is empty, after the pop.
Mouse_go_back(self) ==
    IF self.history # <<>>
    THEN LET popped == SubSeq(self.history, 1, Len(self.history) - 1)
             left == [self EXCEPT !.history = popped]
         IN  IF popped = <<>> /\ self.path_none
             THEN Outcome(left, "TypeError")
             ELSE IF popped = <<>> /\ self.path = <<>>
             THEN Outcome(left, "IndexError")
             ELSE Outcome([left EXCEPT !.pos = IF popped # <<>>
                                                THEN popped[Len(popped)]
                                                ELSE self.path[1],
                                       !.path_index = IF self.path_index > 0
                                                      THEN self.path_index - 1
                                                      ELSE 0],
                          "")
    ELSE Outcome(self, "")

\* Mutant: has_explored is left as it is.
Mouse_reset_KeepExplored(self) ==
    [self EXCEPT !.path = <<>>, !.path_none = FALSE, !.path_index = 0,
                 !.history = <<>>]

\* Mouse.reset()
Mouse_reset(self) ==
    [self EXCEPT !.path = <<>>, !.path_none = FALSE, !.path_index = 0,
                 !.history = <<>>, !.has_explored = FALSE]

\* Mouse.reset_position()
Mouse_reset_position(self) ==
    IF self.path # <<>>
    THEN [self EXCEPT !.pos = self.path[1], !.path_index = 0,
                      !.history = <<self.path[1]>>]
    ELSE self

----------------------------------------------------------------------------
(* The simulation's set-up: create_maze, find_start_end, the first search. *)

Widths == MinDim..MAZE_WIDTH

Heights == MinDim..MAZE_HEIGHT

InitMaze ==
    /\ width \in Widths
    /\ height \in Heights
    /\ maze = <<>>
    /\ maze_in = <<>>
    /\ start = None
    /\ end_points = {}
    /\ search = AstarLocals(None)
    /\ stack = <<>>
    /\ mouse = None
    /\ stepper = None
    /\ game_state = None
    /\ pc = "create"

Top == stack[Len(stack)]

\* create_maze up to its call carve_path(1, 0).
CreateMaze ==
    /\ pc = "create"
    /\ LET e == CarveEnter(NewMaze(width, height), 1, 0)
       IN  /\ maze' = e.maze
           /\ stack' = <<e.frame>>
    /\ pc' = "carve"
    /\ UNCHANGED <<maze_in, start, end_points, search, width, height, mouse,
                   sim_vars>>

\* One turn of carve_path's loop that passes the test of line 20: open the
\* cell between and call carve_path on the target.  random.shuffle leaves
\* the directions in any order, and a direction whose target fails the test
\* changes nothing (and fails it ever after, as does a direction once
\* taken): the next direction to pass is any that passes now.
CarveInto ==
    /\ pc = "carve" /\ stack # <<>>
    /\ \E d \in Directions :
          LET r == CarveTry(maze, width, height, Top.x, Top.y, d)
              e == CarveEnter(r.maze, r.nx, r.ny)
          IN  /\ r.enter
              /\ maze' = e.maze
              /\ stack' = Append(stack, e.frame)
    /\ UNCHANGED <<maze_in, start, end_points, search, width, height, mouse, pc,
                   sim_vars>>

\* No direction is left that passes the test: the loop runs out and
\* carve_path returns; create_maze returns after the outermost call.
CarveReturn ==
    /\ pc = "carve" /\ stack # <<>>
    /\ \A d \in Directions :
          ~CarveTry(maze, width, height, Top.x, Top.y, d).enter
    /\ stack' = SubSeq(stack, 1, Len(stack) - 1)
    /\ pc' = IF Len(stack) = 1 THEN "created" ELSE "carve"
    /\ UNCHANGED <<maze, maze_in, start, end_points, search, width, height, mouse,
                   sim_vars>>

\* start, end_points = find_start_end(maze); mouse = Mouse(start[1], start[0])
FindStartEnd ==
    /\ pc = "created"
    /\ LET r == find_start_end(maze)
       IN  /\ maze' = r.maze
           /\ start' = r.start
           /\ end_points' = Range(r.end_points)
           /\ mouse' = IF r.raised THEN mouse ELSE Mouse(r.start[2], r.start[1])
           /\ pc' = IF r.raised THEN "raised" ELSE "placed"
    /\ UNCHANGED <<maze_in, search, gen_vars, sim_vars>>

\* Mouse.update's first call: astar(maze, self.pos, end_points) from the
\* start cell.
MousePlan ==
    /\ pc = "placed"
    /\ maze_in' = maze
    /\ search' = AstarRun(maze, mouse.pos, end_points, AstarLocals(mouse.pos))
    /\ mouse' = Mouse_update(mouse, maze, end_points).self
    /\ pc' = "planned"
    /\ UNCHANGED <<maze, start, end_points, gen_vars, sim_vars>>

NextMaze ==
    \/ CreateMaze
    \/ CarveInto
    \/ CarveReturn
    \/ FindStartEnd
    \/ MousePlan

SpecMaze == InitMaze /\ [][NextMaze]_vars

----------------------------------------------------------------------------
(* The open-cell graph, defined apart from get_neighbors: what the claims   *)
(* measure astar against.                                                   *)

Adjacent(c, d) == Abs(c[1] - d[1]) + Abs(c[2] - d[2]) = 1

NonWall(m) == {c \in CellsOf(m) : Tag(m, c[1], c[2]) # "#"}

\* The four cells next to cell c.
Around(c) ==
    {<<c[1] - 1, c[2]>>, <<c[1] + 1, c[2]>>, <<c[1], c[2] - 1>>, <<c[1], c[2] + 1>>}

\* Breadth-first search in layers over the cells of V: seen holds the cells
\* found so far, layer the ones found last, d their distance.  A move
\* enters a cell of V next to the cell it leaves.  The result is the cells
\* found and dist, the distance of the nearest cell of G (-1: none found).
RECURSIVE Bfs(_, _, _, _, _)
Bfs(V, seen, layer, G, d) ==
    IF layer \cap G # {} THEN [cells |-> seen, dist |-> d]
    ELSE LET next == (UNION {Around(c) : c \in layer} \cap V) \ seen
         IN  IF next = {}
             THEN [cells |-> seen, dist |-> -1]
             ELSE Bfs(V, seen \cup next, next, G, d + 1)

\* Every cell a walk from a cell of S can stand on (S included).
ReachFrom(m, S) == Bfs(NonWall(m), S, S, {}, 0).cells

\* Breadth-first distance from st to the nearest cell of G; -1 when no cell
\* of G can be reached.
BfsDistance(m, st, G) == Bfs(NonWall(m), {st}, {st}, G, 0).dist

\* The graph on a set V of cells whose edges join 4-adjacent cells of V: the
\* cells of V that can be walked to from S inside V.
ReachIn(V, S) == Bfs(V, S, S, {}, 0).cells

\* Its number of edges: each is counted at its upper or left cell.
EdgesIn(V) ==
    Cardinality({c \in V : <<c[1] + 1, c[2]>> \in V})
        + Cardinality({c \in V : <<c[1], c[2] + 1>> \in V})

\* Its number of connected components.
RECURSIVE ComponentsIn(_)
ComponentsIn(V) ==
    IF V = {} THEN 0
    ELSE LET c == CHOOSE v \in V : TRUE
         IN  1 + ComponentsIn(V \ ReachIn(V, {c}))

ConnectedIn(V) == ComponentsIn(V) = 1

\* No cycle: a forest has as many edges as cells less components.
AcyclicIn(V) == EdgesIn(V) = Cardinality(V) - ComponentsIn(V)

\* Connected and without a cycle: exactly one simple path between any two
\* non-wall cells.
PerfectMaze(m) == ConnectedIn(NonWall(m)) /\ AcyclicIn(NonWall(m))

\* The number of non-wall cells next to cell c.
OpenDegree(m, c) == Cardinality({d \in NonWall(m) : Adjacent(c, d)})

FullSize == width = MAZE_WIDTH /\ height = MAZE_HEIGHT

Ended == search.status \in {"returned", "raised"}

Returned == search.status = "returned"

ReturnedPath == Returned /\ search.result.found

ReturnedNone == Returned /\ ~search.result.found

ValidStart(m, st) == st \in NonWall(m)

----------------------------------------------------------------------------
(* The agent driven through its methods on every small grid. *)

MouseShapes ==
    {sh \in (1..MaxMouseCells) \X (1..MaxMouseCells) : sh[1] * sh[2] <= MaxMouseCells}

\* A mouse is made at the start cell, which is no wall, and is given a goal
\* collection that is not empty.
InitMouse ==
    /\ \E sh \in MouseShapes : maze \in Grids(sh)
    /\ maze_in = maze
    /\ start \in NonWall(maze)
    /\ end_points \in GoalSets(maze) \ {{}}
    /\ search = AstarLocals(start)
    /\ width = NumCols(maze)
    /\ height = NumRows(maze)
    /\ stack = <<>>
    /\ mouse = Mouse(start[2], start[1])
    /\ stepper = None
    /\ game_state = None
    /\ pc = "mouse"

\* A method has run with outcome r: an exception ends the run.
MouseAfter(r) ==
    /\ mouse' = r.self
    /\ pc' = IF r.raised = "" THEN "mouse" ELSE "raised"
    /\ UNCHANGED <<maze, maze_in, start, end_points, search, gen_vars, sim_vars>>

\* mouse.update(maze, end_points)
MouseUpdate ==
    /\ pc = "mouse"
    /\ MouseAfter(Mouse_update(mouse, maze, end_points))

\* mouse.go_back()
MouseGoBack ==
    /\ pc = "mouse"
    /\ MouseAfter(Mouse_go_back(mouse))

\* mouse.reset()
MouseReset ==
    /\ pc = "mouse"
    /\ MouseAfter(Outcome(Mouse_reset(mouse), ""))

\* mouse.reset_position()
MouseResetPosition ==
    /\ pc = "mouse"
    /\ MouseAfter(Outcome(Mouse_reset_position(mouse), ""))

NextMouse ==
    \/ MouseUpdate
    \/ MouseGoBack
    \/ MouseReset
    \/ MouseResetPosition

SpecMouse == InitMouse /\ [][NextMouse]_vars

----------------------------------------------------------------------------
(* Claims about astar, checked under SpecAstar. *)

\* C1: A* optimality.  With a non-empty goal collection of which a goal can
\* be reached from start, astar returns a path, and the path's number of
\* steps is the breadth-first distance from start to the nearest goal.
C1_Optimal ==
    (Ended /\ end_points # {} /\ BfsDistance(maze_in, start, end_points) >= 0)
        => /\ ReturnedPath
           /\ Len(search.result.path) - 1 = BfsDistance(maze_in, start, end_points)

\* A goal two or more steps away was reached on a grid where two goals were
\* given.
C1_Witness ==
    /\ ReturnedPath
    /\ Cardinality(end_points) = 2
    /\ Len(search.result.path) >= 4
    /\ BfsDistance(maze_in, start, end_points) = Len(search.result.path) - 1

\* C2: a returned path is a walk from start to a goal: it is not empty, starts
\* at start, ends in end_points, moves between 4-adjacent cells, and every
\* cell after the first is in bounds and no wall.
C2_PathIsWalk ==
    ReturnedPath =>
        LET p == search.result.path
        IN  /\ Len(p) >= 1
            /\ p[1] = start
            /\ p[Len(p)] \in end_points
            /\ \A i \in 1..Len(p) - 1 : Adjacent(p[i], p[i + 1])
            /\ \A i \in 2..Len(p) :
                  /\ in_bounds(maze_in, p[i][1], p[i][2])
                  /\ Tag(maze_in, p[i][1], p[i][2]) # "#"

\* A path of three or more cells was returned on a grid that has a wall.
C2_Witness ==
    /\ ReturnedPath
    /\ Len(search.result.path) >= 3
    /\ NonWall(maze_in) # CellsOf(maze_in)

\* C3: with a non-empty goal collection none of whose cells can be reached,
\* astar returns None for the path and explored is exactly the set of cells
\* reachable from start, start included.
C3_NoPathExploresAll ==
    (Ended /\ end_points # {} /\ BfsDistance(maze_in, start, end_points) < 0)
        => /\ ReturnedNone
           /\ search.result.explored = ReachFrom(maze_in, {start})

\* No path was found after three or more cells were explored.
C3_Witness ==
    /\ ReturnedNone
    /\ end_points # {}
    /\ Cardinality(search.result.explored) >= 3

\* C4: when start is a goal, astar returns the path [start] and an empty
\* explored set.
C4_StartIsGoal ==
    (Ended /\ start \in end_points)
        => /\ ReturnedPath
           /\ search.result.path = <<start>>
           /\ search.result.explored = {}

\* astar returned for a start that is a goal and has a non-wall neighbour.
C4_Witness ==
    /\ Returned
    /\ start \in end_points
    /\ get_neighbors(maze_in, start) # <<>>

\* C5: with an empty goal collection astar ends in an error: it never
\* returns a result.
C5_EmptyGoalsRaise ==
    (Ended /\ end_points = {}) => search.status = "raised"

\* C6: with a start that is a wall or outside the grid astar ends in an
\* error: it never returns a result.  (Stated for the non-empty goal
\* collections of the contract, which keeps C5's case apart.)
C6_InvalidStartRaises ==
    (Ended /\ end_points # {} /\ ~ValidStart(maze_in, start))
        => search.status = "raised"

\* C7: astar leaves the grid as it was: every cell has the tag it had when
\* astar was called, at every step and after it returned or raised.
C7_MazeReadOnly ==
    pc = "astar" => maze = maze_in

\* astar returned after expanding two or more cells.
C7_Witness ==
    /\ Returned
    /\ Cardinality(search.result.explored) >= 2
    /\ maze = maze_in

----------------------------------------------------------------------------
(* Claims about the generator, checked under SpecMaze. *)

\* C8: whatever the shuffles give, the grid create_maze returns is a perfect
\* maze: its non-wall cells are connected under 4-adjacency and have no
\* cycle (adjacent open pairs = open cells - 1).
C8_CreateMazePerfect ==
    pc = "created" =>
        /\ ConnectedIn(NonWall(maze))
        /\ EdgesIn(NonWall(maze)) = Cardinality(NonWall(maze)) - 1

\* create_maze(MAZE_WIDTH, MAZE_HEIGHT) returned a maze with a junction: a
\* cell with three or more open neighbours.
C8_Witness ==
    /\ pc = "created"
    /\ FullSize
    /\ \E c \in NonWall(maze) : OpenDegree(maze, c) >= 3

\* C9 as claimed: the grid after create_maze(MAZE_WIDTH, MAZE_HEIGHT) and
\* find_start_end is a perfect maze: exactly one simple path between any two
\* non-wall cells, START and GOAL cells included.
C9_PlacedMazePerfect ==
    (pc = "placed" /\ FullSize) => PerfectMaze(maze)

\* C9 amended: after create_maze and find_start_end the non-wall cells are
\* connected (at least one path between any two), the four goal cells are
\* non-wall and form a cycle, and every cycle passes through a goal cell:
\* the non-wall cells outside the goal block have no cycle.
C9_PlacedMazeConnected ==
    pc = "placed" =>
        /\ ConnectedIn(NonWall(maze))
        /\ end_points \subseteq NonWall(maze)
        /\ EdgesIn(end_points) = Cardinality(end_points)
        /\ AcyclicIn(NonWall(maze) \ end_points)

\* find_start_end has marked a maze made by
\* create_maze(MAZE_WIDTH, MAZE_HEIGHT): it is connected and not perfect.
C9_Witness ==
    /\ pc = "placed"
    /\ FullSize
    /\ ConnectedIn(NonWall(maze))
    /\ ~AcyclicIn(NonWall(maze))

\* C10: after create_maze and find_start_end each of the four goal cells can
\* be reached from the start cell (0, 0) through non-wall cells, and the
\* search on the generated maze finds a path.
C10_GoalsReachable ==
    /\ pc \in {"placed", "planned"} =>
          /\ start = <<0, 0>>
          /\ Cardinality(end_points) = 4
          /\ end_points \subseteq ReachFrom(maze, {start})
    /\ pc = "planned" => ReturnedPath

\* The search ran on a maze made by create_maze(MAZE_WIDTH, MAZE_HEIGHT) and
\* found a path longer than the straight distance to the goal block.
C10_Witness ==
    /\ pc = "planned"
    /\ FullSize
    /\ ReturnedPath
    /\ Len(search.result.path) - 1 > heuristic_multi(start, end_points)

----------------------------------------------------------------------------
(* Claims about the goal placement, checked under SpecMaze. *)

\* The cells of grid m that carry tag t.
Tagged(m, t) == {c \in CellsOf(m) : Tag(m, c[1], c[2]) = t}

\* The 2x2 block of cells whose upper left cell is <<r, c>>.
Block2x2(r, c) == {r, r + 1} \X {c, c + 1}

\* C11: after find_start_end has returned, the grid has exactly one START
\* cell, at (0, 0), and exactly four GOAL cells, which are one 2x2 block;
\* every other cell is WALL or OPEN.
C11_StartAndGoalBlock ==
    pc = "placed" =>
        /\ Tagged(maze, "S") = {<<0, 0>>}
        /\ Cardinality(Tagged(maze, "E")) = 4
        /\ \E c \in CellsOf(maze) : Tagged(maze, "E") = Block2x2(c[1], c[2])
        /\ \A c \in CellsOf(maze) : Tag(maze, c[1], c[2]) \in {"S", "E", "#", "."}

\* find_start_end has returned on a maze made by
\* create_maze(MAZE_WIDTH, MAZE_HEIGHT), and the grid has walls and open
\* cells beside its start and goal cells.
C11_Witness ==
    /\ pc = "placed"
    /\ FullSize
    /\ Tagged(maze, "E") = end_points
    /\ Tagged(maze, "#") # {}
    /\ Tagged(maze, ".") # {}

\* C12: find_start_end places the goals from the size of the grid it is
\* given: for every height and width >= 4 it does not fail, and it marks as
\* GOAL exactly the cells with row in {height // 2 - 1, height // 2} and
\* column in {width // 2 - 1, width // 2}.
C12_GoalsFromGridSize ==
    /\ pc # "raised"
    /\ pc = "placed" =>
          Tagged(maze, "E") = Block2x2((height \div 2) - 1, (width \div 2) - 1)

----------------------------------------------------------------------------
(* Claims about the carve's termination, checked under SpecMaze. *)

\* The cell <<row, col>> of a call carve_path(x, y).
FrameCell(f) == <<f.y, f.x>>

\* The cells two steps from cell c along a row or a column.
Step2(c) ==
    {<<c[1] - 2, c[2]>>, <<c[1] + 2, c[2]>>, <<c[1], c[2] - 2>>, <<c[1], c[2] + 2>>}

\* What bounds the carve: every call opens two walls and every return
\* shortens the stack.
CarveMeasure == 2 * Cardinality(Tagged(maze, "#")) + Len(stack)

\* A step that calls carve_path: the target is two steps from the caller's
\* cell, inside the grid and still a wall (so it was never entered before),
\* and the step opens the target and the cell between, both inside the grid,
\* and nothing else.
CarveCalls ==
    /\ Len(stack') = Len(stack) + 1
    /\ SubSeq(stack', 1, Len(stack)) = stack
    /\ LET from == FrameCell(Top)
           to   == FrameCell(stack'[Len(stack')])
           mid  == <<(from[1] + to[1]) \div 2, (from[2] + to[2]) \div 2>>
       IN  /\ to \in Step2(from) \cap CellsOf(maze)
           /\ mid \in CellsOf(maze)
           /\ Tag(maze, to[1], to[2]) = "#"
           /\ Tagged(maze', ".") = Tagged(maze, ".") \cup {to, mid}
           /\ Tagged(maze', "#") = Tagged(maze, "#") \ {to, mid}
    /\ pc' = "carve"

\* A step that returns from carve_path: no cell two steps from the call's
\* cell inside the grid is still a wall, and the grid is left alone;
\* create_maze returns with the outermost call.
CarveReturns ==
    /\ stack' = SubSeq(stack, 1, Len(stack) - 1)
    /\ \A c \in Step2(FrameCell(Top)) \cap CellsOf(maze) : Tag(maze, c[1], c[2]) # "#"
    /\ maze' = maze
    /\ pc' = IF stack' = <<>> THEN "created" ELSE "carve"

----------------------------------------------------------------------------
(* Claims about astar's termination and its heuristic, checked under       *)
(* SpecAstar.                                                              *)

\* The cells astar can hold a cost for: the grid's cells and start.
CostCells == CellsOf(maze_in) \cup {start}

\* More than any recorded cost: a cost is a number of steps between two of
\* the cells above.
NoCost == Cardinality(CostCells)

\* The recorded cost of cell c in locals s, NoCost when none is recorded.
CostOf(s, c) == IF c \in DOMAIN s.cost_so_far THEN s.cost_so_far[c] ELSE NoCost

RECURSIVE SumCosts(_, _)
SumCosts(s, S) ==
    IF S = {} THEN 0
    ELSE LET c == CHOOSE x \in S : TRUE
         IN  CostOf(s, c) + SumCosts(s, S \ {c})

\* The number of entries of the heap that hold cell c.
EntriesOf(open_set, c) ==
    LET E == {e \in BagToSet(open_set) : e[2] = c}
    IN  IF E = {} THEN 0 ELSE BagCardinality([e \in E |-> open_set[e]])

\* What bounds the loop: an iteration pops one entry and pushes at most four,
\* each push lowering a recorded cost by one or more.
AstarMeasure(s) == 5 * SumCosts(s, CostCells) + BagCardinality(s.open_set)

\* One iteration of the while loop: one entry is popped, and a cell gains an
\* entry only when its recorded cost is new or strictly lower than before;
\* the loop is left when the heap is empty.
LoopStepBounded ==
    IF search.open_set = EmptyBag
    THEN search'.status = "returned"
    ELSE /\ AstarMeasure(search') < AstarMeasure(search)
         /\ AstarMeasure(search') >= 0
         /\ \A c \in CostCells :
               EntriesOf(search'.open_set, c) > EntriesOf(search.open_set, c)
                   => /\ c \in DOMAIN search'.cost_so_far
                      /\ CostOf(search', c) < CostOf(search, c)
         /\ \/ search'.status = "reconstruct" /\ search'.reached_end \in end_points
            \/ search'.status = "loop"

\* One iteration of the walk back along came_from: the recorded cost of
\* current goes down, and is never negative.
WalkStepBounded ==
    /\ search'.status = "reconstruct"
          => /\ CostOf(search', search'.current) < CostOf(search, search.current)
             /\ CostOf(search', search'.current) >= 0
    /\ search'.status \in {"reconstruct", "returned"}

\* No step of astar fails on a lookup: every cell in the heap has a recorded
\* cost, and the walk back stands on a cell with a recorded predecessor,
\* which is a cell too unless the walk has arrived at start.
LookupsDefined ==
    /\ search.status = "loop" =>
          \A e \in BagToSet(search.open_set) : e[2] \in DOMAIN search.cost_so_far
    /\ search.status = "reconstruct" =>
          /\ search.current \in DOMAIN search.came_from
          /\ search.current # start =>
                search.came_from[search.current] \in DOMAIN search.came_from

\* C14: astar terminates on every grid, for every start and every non-empty
\* goal collection, with or without cycles and reachable goals.  No step
\* fails; every iteration of the while loop lowers AstarMeasure, which is
\* never negative, because a cell is pushed only when its recorded cost
\* strictly decreases, so the open set runs empty or a goal is popped; and
\* every iteration of the walk back lowers the cost of current.
C14_AstarTerminates ==
    /\ []((pc = "astar" /\ end_points # {}) => LookupsDefined)
    /\ [][(pc = "astar" /\ end_points # {}) =>
            /\ search.status = "loop" => LoopStepBounded
            /\ search.status = "reconstruct" => WalkStepBounded]_vars

\* astar has ended with no path on a grid with a cycle (a 2x2 block of
\* non-wall cells) after exploring four or more cells.
C14_Witness ==
    /\ pc = "astar"
    /\ ReturnedNone
    /\ end_points # {}
    /\ Cardinality(search.result.explored) >= 4
    /\ \E c \in CellsOf(maze_in) : Block2x2(c[1], c[2]) \subseteq NonWall(maze_in)

\* C15: the heuristic is admissible.  On every grid, for every non-wall cell
\* c and every non-empty goal collection of which a goal can be reached from
\* c, the heuristic of c (both as heuristic computes it for a collection and
\* as astar computes it for a priority, the least Manhattan distance to a
\* goal) is at most the breadth-first distance from c to the nearest goal
\* that can be reached.  (The grid and the goals stay as they are through a
\* run: each is looked at once, when its run has ended.)
C15_HeuristicAdmissible ==
    (pc = "astar" /\ Ended /\ end_points # {}) =>
        \A c \in NonWall(maze_in) :
            BfsDistance(maze_in, c, end_points) >= 0
                => /\ heuristic_multi(c, end_points)
                          <= BfsDistance(maze_in, c, end_points)
                   /\ Priority(0, c, end_points)
                          <= BfsDistance(maze_in, c, end_points)

\* astar, which ranked its entries by the heuristic, has returned a path to
\* one of two goals that is longer than the heuristic of its start: a wall
\* forced a detour.
C15_Witness ==
    /\ pc = "astar"
    /\ ReturnedPath
    /\ Cardinality(end_points) = 2
    /\ start \in NonWall(maze_in)
    /\ heuristic_multi(start, end_points) < BfsDistance(maze_in, start, end_points)
    /\ Len(search.result.path) - 1 = BfsDistance(maze_in, start, end_points)

\* C16: in every result of astar, explored is a subset of the cells that
\* can be reached from start; and when a path is returned, every cell of it
\* is in explored or is the goal that was reached, which is the path's last
\* cell and is not in explored.
C16_ExploredAndPath ==
    (pc = "astar" /\ Returned) =>
        /\ search.result.explored \subseteq ReachFrom(maze_in, {start})
        /\ search.result.found =>
              LET p == search.result.path
                  goal == search.reached_end
              IN  /\ goal = p[Len(p)]
                  /\ goal \in end_points
                  /\ goal \notin search.result.explored
                  /\ \A i \in 1..Len(p) : p[i] \in search.result.explored \cup {goal}

\* astar returned a path of three or more cells on a grid where a non-wall
\* cell cannot be reached from start and another that can be was not
\* explored.
C16_Witness ==
    /\ pc = "astar"
    /\ ReturnedPath
    /\ Len(search.result.path) >= 3
    /\ NonWall(maze_in) \ ReachFrom(maze_in, {start}) # {}
    /\ ReachFrom(maze_in, {start}) \ (search.result.explored \cup end_points) # {}

\* Cell c comes before cell d by row, then by column.
LexLess(c, d) == c[1] < d[1] \/ (c[1] = d[1] /\ c[2] < d[2])

\* The cells of the heap's entries of least priority.
TiedCells(open_set) ==
    LET least == SetMin({e[1] : e \in BagToSet(open_set)})
    IN  {e[2] : e \in {f \in BagToSet(open_set) : f[1] = least}}

\* A pop takes one entry of least priority out of the heap, and among the
\* entries of least priority the one whose cell comes first by (row, col).
PopsFirstTiedCell ==
    LET popped == search'.current
    IN  /\ popped \in TiedCells(search.open_set)
        /\ \A c \in TiedCells(search.open_set) : c = popped \/ LexLess(popped, c)

\* C17: tie-breaking is deterministic.  Every pop takes, among the pending
\* entries of equal least priority, the one whose cell is smallest by
\* (row, col); every step of astar is a function of the grid, start, the
\* goals and the locals; and so a run ends in the one result
\* astar(maze, start, end_points) has: two runs on the same grid, start and
\* goals return the same path, explored set and cost map.
C17_DeterministicTieBreak ==
    /\ [][(pc = "astar" /\ search.status = "loop" /\ search.open_set # EmptyBag)
              => PopsFirstTiedCell]_vars
    /\ [][pc = "astar" =>
              search' = AstarStepOf(maze_in, start, end_points, search)]_vars
    /\ []((pc = "astar" /\ Ended) =>
              search.result = astar(maze_in, start, end_points))

\* astar returned a path of three cells whose middle cell had a rival: a
\* non-wall cell next to both ends that comes later by (row, col).
C17_Witness ==
    /\ pc = "astar"
    /\ ReturnedPath
    /\ start \in NonWall(maze_in)
    /\ Len(search.result.path) = 3
    /\ \E alt \in NonWall(maze_in) :
          /\ Adjacent(alt, search.result.path[1])
          /\ Adjacent(alt, search.result.path[3])
          /\ LexLess(search.result.path[2], alt)

----------------------------------------------------------------------------
(* Claims about the agent, checked under SpecMouse. *)

\* A path is cached: the attribute path is a list that is not empty.
CachedPath(self) == ~self.path_none /\ self.path # <<>>

\* No search has run since the mouse was made or reset.
NoSearchYet(self) == self.path = <<>> /\ ~self.has_explored

\* update() and then go_back().
UpdateThenGoBack(self) ==
    LET u == Mouse_update(self, maze, end_points)
        g == Mouse_go_back(u.self)
    IN  [self |-> g.self, raised |-> u.raised # "" \/ g.raised # ""]

\* C18: update with a path cached and path_index = len(path) moves nothing:
\* it returns, and position, history and path_index are what they were; the
\* path is what it was too, so the same holds of every further call.
C18_NoMoveIdempotent ==
    (pc = "mouse" /\ CachedPath(mouse) /\ mouse.path_index = Len(mouse.path)) =>
        LET r == Mouse_update(mouse, maze, end_points)
        IN  /\ r.raised = ""
            /\ r.self.pos = mouse.pos
            /\ r.self.history = mouse.history
            /\ r.self.path_index = mouse.path_index
            /\ r.self.path = mouse.path
            /\ Mouse_update(r.self, maze, end_points) = r

\* The mouse has walked a path of three or more cells to its end: it stands
\* on the path's last cell with path_index = len(path).
C18_Witness ==
    /\ pc = "mouse"
    /\ CachedPath(mouse)
    /\ Len(mouse.path) >= 3
    /\ mouse.path_index = Len(mouse.path)
    /\ mouse.pos = mouse.path[Len(mouse.path)]
    /\ mouse.pos \in end_points

\* C19 as claimed: in every state the agent can be in, update() and then
\* go_back() leave the position and path_index as they were before the
\* update.
C19_RoundTrip ==
    pc = "mouse" =>
        LET r == UpdateThenGoBack(mouse)
        IN  /\ ~r.raised
            /\ r.self.pos = mouse.pos
            /\ r.self.path_index = mouse.path_index

\* C19 amended: in every state in which update() has something to do (no
\* search has run yet, or a path is cached and path_index < len(path)),
\* update() and then go_back() leave the position and path_index as they
\* were before the update.
C19_RoundTripWhenAdvancing ==
    (pc = "mouse" /\ (NoSearchYet(mouse)
                         \/ (CachedPath(mouse) /\ mouse.path_index < Len(mouse.path))))
        => LET r == UpdateThenGoBack(mouse)
           IN  /\ ~r.raised
               /\ r.self.pos = mouse.pos
               /\ r.self.path_index = mouse.path_index

\* The mouse stands in the middle of its path, one move made and another to
\* make, and the move and the step back bring it to where it stands.
C19_Witness ==
    /\ pc = "mouse"
    /\ CachedPath(mouse)
    /\ mouse.path_index >= 2
    /\ mouse.path_index < Len(mouse.path)
    /\ Mouse_update(mouse, maze, end_points).self.pos # mouse.pos
    /\ UpdateThenGoBack(mouse).self.pos = mouse.pos

\* C20: a moving advance records the previous cell.  When update() runs
\* with a path cached and path_index < len(path), history grows by the
\* position held before the move, the new position is path[path_index], and
\* path_index grows by one.
C20_AdvanceRecordsPrevious ==
    (pc = "mouse" /\ CachedPath(mouse) /\ mouse.path_index < Len(mouse.path)) =>
        LET r == Mouse_update(mouse, maze, end_points)
        IN  /\ r.raised = ""
            /\ r.self.history = Append(mouse.history, mouse.pos)
            /\ r.self.pos = mouse.path[mouse.path_index + 1]
            /\ r.self.path_index = mouse.path_index + 1

\* C21: reset() clears the cached path, sets path_index to 0 and empties
\* the history, and leaves the position alone; the update() that follows
\* runs the search again, from the position the agent stands on, and does
\* not move: it caches a shortest path from that position to a goal when a
\* goal can be reached, and None when none can.
C21_ResetForcesReplan ==
    pc = "mouse" =>
        LET r == Mouse_reset(mouse)
            u == Mouse_update(r, maze, end_points)
            d == BfsDistance(maze, mouse.pos, end_points)
        IN  /\ r.path = <<>> /\ ~r.path_none
            /\ r.path_index = 0
            /\ r.history = <<>>
            /\ r.pos = mouse.pos
            /\ u.raised = ""
            /\ u.self.has_explored
            /\ u.self.pos = mouse.pos
            /\ u.self.path_index = 0
            /\ u.self.path_none = (d < 0)
            /\ d >= 0 => /\ Len(u.self.path) = d + 1
                         /\ u.self.path[1] = mouse.pos
                         /\ u.self.path[d + 1] \in end_points

\* The mouse was reset away from its start cell and the update that
\* followed cached a path that begins where it stood.
C21_Witness ==
    /\ pc = "mouse"
    /\ CachedPath(mouse)
    /\ Len(mouse.path) >= 2
    /\ mouse.path[1] # start
    /\ mouse.path_index = 0
    /\ mouse.pos = mouse.path[1]
    /\ mouse.history = <<mouse.pos>>

\* C22: a search that found no path never crashes the stepper: once the
\* cached path is None, every update() and every go_back() returns without
\* raising and leaves the agent where it stands.
C22_NoPathNeverCrashes ==
    (pc = "mouse" /\ mouse.path_none) =>
        LET u == Mouse_update(mouse, maze, end_points)
            g == Mouse_go_back(mouse)
        IN  /\ u.raised = "" /\ u.self.pos = mouse.pos
            /\ g.raised = "" /\ g.self.pos = mouse.pos

----------------------------------------------------------------------------
(* Claims about astar's bookkeeping, checked under SpecAstar. *)

\* The entry about to be popped is stale: its cell was expanded before.
StalePop ==
    /\ pc = "astar" /\ search.status = "loop"
    /\ search.open_set # EmptyBag
    /\ HeapTop(search.open_set)[2] \in search.explored

\* C23: stale queue entries are no-ops.  Whenever astar pops an entry whose
\* cell is already in explored, that iteration of the loop leaves
\* cost_so_far, came_from and explored as they were and pushes nothing: the
\* heap loses the popped entry and gains none.
C23_StalePopsAreNoOps ==
    [][StalePop =>
          /\ search'.cost_so_far = search.cost_so_far
          /\ search'.came_from = search.came_from
          /\ search'.explored = search.explored
          /\ BagCardinality(search'.open_set) = BagCardinality(search.open_set) - 1
          /\ \A e \in BagToSet(search'.open_set) :
                /\ e \in BagToSet(search.open_set)
                /\ CopiesIn(e, search'.open_set) <= CopiesIn(e, search.open_set)]_vars

\* A stale entry is at the top of the heap: a cell that has been expanded
\* is about to be popped again, and it has a neighbour that is no wall.
C23_Witness ==
    /\ StalePop
    /\ end_points # {}
    /\ get_neighbors(maze_in, HeapTop(search.open_set)[2]) # <<>>

\* The true distance of cell c from start: the fewest moves of a walk from
\* start to c over non-wall cells, -1 when there is none.
TrueDistance(c) == BfsDistance(maze_in, start, {c})

\* C24: when astar returns, the recorded cost of every cell in explored and
\* of the reached goal is its true breadth-first distance from start, the
\* recorded cost of any other recorded cell is not below its true distance
\* (and the cell can be reached), and the i-th cell of a returned path,
\* counted from 0, has recorded cost i.
C24_CostsAreDistances ==
    Returned =>
        LET r == search.result
        IN  /\ \A c \in r.explored :
                  /\ c \in DOMAIN r.cost_so_far
                  /\ r.cost_so_far[c] = TrueDistance(c)
            /\ r.found =>
                  /\ search.reached_end \in DOMAIN r.cost_so_far
                  /\ r.cost_so_far[search.reached_end]
                         = TrueDistance(search.reached_end)
            /\ \A c \in DOMAIN r.cost_so_far :
                  /\ TrueDistance(c) >= 0
                  /\ r.cost_so_far[c] >= TrueDistance(c)
            /\ r.found =>
                  \A i \in 1..Len(r.path) :
                      /\ r.path[i] \in DOMAIN r.cost_so_far
                      /\ r.cost_so_far[r.path[i]] = i - 1

\* astar returned a path of three or more cells and left a cell recorded,
\* never popped, at more than its true distance.
C24_Witness ==
    /\ ReturnedPath
    /\ Len(search.result.path) >= 3
    /\ \E c \in DOMAIN search.result.cost_so_far :
          /\ c \notin search.result.explored
          /\ search.result.cost_so_far[c] > TrueDistance(c)

\* The heuristic of cell a for the goal collection G, as heuristic computes
\* it and as astar computes it for a priority, differs by at most one from
\* that of each of the four cells around a, and is 0 on a goal; so does
\* heuristic for one goal given as a tuple.
ConsistentOn(G) ==
    /\ \A a \in CostCells : \A b \in Around(a) :
          /\ Abs(heuristic_multi(a, G) - heuristic_multi(b, G)) <= 1
          /\ Abs(Priority(0, a, G) - Priority(0, b, G)) <= 1
          /\ \A g \in G : Abs(heuristic(a, g) - heuristic(b, g)) <= 1
    /\ \A g \in G :
          /\ heuristic_multi(g, G) = 0
          /\ Priority(0, g, G) = 0
          /\ heuristic(g, g) = 0

\* An iteration of the while loop that leaves entries in the heap: the next
\* entry to be popped has a priority no lower than the one popped now.
PopsNeverDecrease ==
    (/\ pc = "astar"
     /\ search.status = "loop"
     /\ search.open_set # EmptyBag
     /\ search'.status = "loop"
     /\ search'.open_set # EmptyBag)
        => HeapTop(search'.open_set)[1] >= HeapTop(search.open_set)[1]

\* C25: the heuristic is consistent: for the non-empty goal collection of
\* every run and every pair of 4-adjacent cells the two heuristics differ by
\* at most 1, and the heuristic of a goal is 0; and the priorities of the
\* entries astar pops never decrease (the start's entry, popped first, has
\* priority 0).  The heuristic does not look at the grid's tags: each shape
\* and goal collection is looked at on the grid without walls, when a run on
\* it has ended.
C25_ConsistentAndMonotone ==
    /\ [](end_points # {} /\ Ended /\ NonWall(maze_in) = CellsOf(maze_in)
             => ConsistentOn(end_points))
    /\ [][PopsNeverDecrease]_vars

\* astar, searching for the nearer of two goals, has popped more than the
\* start and is about to pop an entry of higher priority than the cell it
\* expanded last had.
C25_Witness ==
    /\ pc = "astar"
    /\ search.status = "loop"
    /\ Cardinality(end_points) = 2
    /\ Cardinality(search.explored) >= 2
    /\ search.open_set # EmptyBag
    /\ HeapTop(search.open_set)[1]
           > Priority(search.cost_so_far[search.current], search.current,
                      end_points)

\* C27: between the iterations of astar's loop and through the walk back,
\* came_from and cost_so_far record the same cells, came_from[start] is
\* None, and every other recorded cell c has for predecessor one of the four
\* cells around it, already in explored, with
\* cost_so_far[c] = cost_so_far[came_from[c]] + 1.  The walk back from the
\* reached goal therefore stands on a recorded cell whose predecessor is
\* None only at start, has appended as many cells as the cost has gone down
\* from that of the goal, and ends at start, the one cell of cost 0.
C27_PredecessorMap ==
    (pc = "astar" /\ search.status \in {"loop", "reconstruct"}) =>
        /\ DOMAIN search.came_from = DOMAIN search.cost_so_far
        /\ search.came_from[start] = None
        /\ search.cost_so_far[start] = 0
        /\ \A c \in DOMAIN search.came_from \ {start} :
              LET p == search.came_from[c]
              IN  /\ p # None
                  /\ p \in Around(c)
                  /\ p \in search.explored
                  /\ p \in DOMAIN search.cost_so_far
                  /\ search.cost_so_far[c] = search.cost_so_far[p] + 1
        /\ search.status = "reconstruct" =>
              /\ search.current \in DOMAIN search.came_from
              /\ search.reached_end \in DOMAIN search.cost_so_far
              /\ Len(search.path) + search.cost_so_far[search.current]
                     = search.cost_so_far[search.reached_end]
              /\ (search.came_from[search.current] = None)
                     <=> (search.current = start)

\* Between two iterations, a cell has been found a second time at a lower
\* cost: its predecessor was replaced, and the heap holds both its entries.
C27_Witness ==
    /\ pc = "astar"
    /\ search.status = "loop"
    /\ \E c \in DOMAIN search.came_from \ search.explored :
          EntriesOf(search.open_set, c) >= 2

\* C28: whenever the agent holds a planned path (no reset since the search
\* that found it), after any calls of update, go_back and reset_position,
\* 0 <= path_index <= len(path) and the position is
\* path[max(0, path_index - 1)]: a cell of the path, and not a wall.
C28_CursorOnPath ==
    (pc = "mouse" /\ CachedPath(mouse)) =>
        /\ 0 <= mouse.path_index
        /\ mouse.path_index <= Len(mouse.path)
        /\ mouse.pos = mouse.path[IF mouse.path_index - 1 > 0
                                  THEN mouse.path_index
                                  ELSE 1]
        /\ \E i \in 1..Len(mouse.path) : mouse.pos = mouse.path[i]
        /\ mouse.pos \in NonWall(maze)

\* A go_back emptied the history before the agent went on to the third cell
\* of its path or farther: the history holds one cell less than the updates
\* alone would have left in it, and the cursor is inside the path.
C28_Witness ==
    /\ pc = "mouse"
    /\ CachedPath(mouse)
    /\ mouse.path_index >= 2
    /\ mouse.path_index < Len(mouse.path)
    /\ Len(mouse.history) <= mouse.path_index

----------------------------------------------------------------------------
(* src/main.py: the Mouse of the single-file program, whose history holds   *)
(* the cells left behind and whose go_back returns to the cell popped.      *)

\* Mouse.__init__(x, y) of src/main.py.
MainMouse(x, y) ==
    [pos |-> <<y, x>>, path |-> <<>>, path_none |-> FALSE, path_index |-> 0,
     prev_pos |-> None, history |-> <<>>]

\* Mouse.update(maze, end) of src/main.py; stepping is the value of
\* current_step or simulation_running, two globals.  The search runs
\* whenever no path is held (None and [] alike), and the move follows in the
\* same call when stepping; the old position is pushed.
MainMouse_update(self, m, ends, stepping) ==
    LET ended == AstarRun(m, self.pos, ends, AstarLocals(self.pos))
        r == ended.result
        planned == IF self.path # <<>> THEN self
                   ELSE [self EXCEPT !.path = IF r.found THEN r.path ELSE <<>>,
                                     !.path_none = ~r.found]
    IN  IF self.path = <<>> /\ ended.status = "raised"
        THEN Outcome(self, "ValueError")
        ELSE IF /\ planned.path # <<>>
                /\ stepping
                /\ planned.path_index < Len(planned.path)
        THEN Outcome([planned EXCEPT
                         !.prev_pos = planned.pos,
                         !.history = Append(planned.history, planned.pos),
                         !.pos = planned.path[planned.path_index + 1],
                         !.path_index = planned.path_index + 1], "")
        ELSE Outcome(planned, "")

\* Mouse.go_back() of src/main.py.
MainMouse_go_back(self) ==
    IF self.history # <<>>
    THEN Outcome([self EXCEPT !.pos = self.history[Len(self.history)],
                              !.history = SubSeq(self.history, 1,
                                                 Len(self.history) - 1),
                              !.path_index = IF self.path_index > 0
                                             THEN self.path_index - 1 ELSE 0],
                 "")
    ELSE Outcome(self, "")

----------------------------------------------------------------------------
(* The two agents side by side: the Mouse of src/entities/mouse.py and the  *)
(* stepper, the Mouse of src/main.py called to search when it holds no path *)
(* and to move when it holds one, receive the same calls.                   *)

InitStepper ==
    /\ \E sh \in MouseShapes : maze \in Grids(sh)
    /\ maze_in = maze
    /\ start \in NonWall(maze)
    /\ end_points \in GoalSets(maze) \ {{}}
    /\ search = AstarLocals(start)
    /\ width = NumCols(maze)
    /\ height = NumRows(maze)
    /\ stack = <<>>
    /\ mouse = Mouse(start[2], start[1])
    /\ stepper = MainMouse(start[2], start[1])
    /\ game_state = None
    /\ pc = "mouse"

\* Both calls have run, with outcomes r and s.
BothAfter(r, s) ==
    /\ mouse' = r.self
    /\ stepper' = s.self
    /\ pc' = IF r.raised = "" /\ s.raised = "" THEN "mouse" ELSE "raised"
    /\ UNCHANGED <<maze, maze_in, start, end_points, search, gen_vars,
                   game_state>>

\* advance: mouse.update(maze, end_points) on either agent.
Advance ==
    /\ pc = "mouse"
    /\ BothAfter(Mouse_update(mouse, maze, end_points),
                 MainMouse_update(stepper, maze, end_points,
                                  stepper.path # <<>>))

\* retreat: mouse.go_back() on either agent.
Retreat ==
    /\ pc = "mouse"
    /\ BothAfter(Mouse_go_back(mouse), MainMouse_go_back(stepper))

NextStepper ==
    \/ Advance
    \/ Retreat

SpecStepper == InitStepper /\ [][NextStepper]_vars

----------------------------------------------------------------------------
(* Claims about the two agents, checked under SpecStepper. *)

\* The two agents stand on the same cell with the same cursor.
SameObservable ==
    /\ mouse.pos = stepper.pos
    /\ mouse.path_index = stepper.path_index

\* C29: after every call of a sequence of advance and retreat calls made on
\* both, the Mouse of src/entities/mouse.py and the stepper have the same
\* position and the same path_index, and no call has raised.
C29_MouseRefinesStepper == pc # "raised" /\ SameObservable

\* While the search of the Mouse has found a path or has not run yet, the
\* position and path_index of the two agents agree after every call.
SameWhenPathFound ==
    (pc = "mouse" /\ ~mouse.path_none) => SameObservable

----------------------------------------------------------------------------
(* src/simulation/game_state.py and the driving loop of                     *)
(* src/simulation/main.py.  The two display toggles of GameState and its    *)
(* cost_so_far, which nothing writes, are left out.                         *)

\* GameState.__init__
GameState ==
    [simulation_running |-> FALSE, current_step |-> FALSE,
     explored_cells |-> {}]

GameState_start_simulation(gs) ==
    [gs EXCEPT !.simulation_running = TRUE, !.current_step = FALSE]

GameState_stop_simulation(gs) ==
    [gs EXCEPT !.simulation_running = FALSE, !.current_step = FALSE]

\* Mutant: a step request leaves simulation_running as it is.
GameState_step_forward_KeepRunning(gs) ==
    [gs EXCEPT !.current_step = TRUE]

GameState_step_forward(gs) ==
    [gs EXCEPT !.simulation_running = FALSE, !.current_step = TRUE]

GameState_step_complete(gs) == [gs EXCEPT !.current_step = FALSE]

GameState_reset(gs) ==
    [gs EXCEPT !.simulation_running = FALSE, !.current_step = FALSE,
               !.explored_cells = {}]

\* game_state.explored_cells.update(explored)
AddExplored(gs, explored) ==
    [gs EXCEPT !.explored_cells = gs.explored_cells \cup explored]

\* What mouse.update(maze, end_points) returns: the explored set of a search
\* that found a path, None (here the empty set, as falsy as None) otherwise.
Mouse_update_returns(self, m, ends) ==
    LET ended == AstarRun(m, self.pos, ends, AstarLocals(self.pos))
    IN  IF /\ self.path = <<>> /\ ~self.has_explored
           /\ ended.status = "returned" /\ ended.result.found
        THEN ended.result.explored
        ELSE {}

\* `self.mouse.path and self.mouse.path_index < len(self.mouse.path)`
CanMove(self) == self.path # <<>> /\ self.path_index < Len(self.path)

\* MicromouseSimulation.__init__ up to create_maze: the maze has the size
\* the constants give it.
InitSim ==
    /\ width = MAZE_WIDTH
    /\ height = MAZE_HEIGHT
    /\ maze = <<>>
    /\ maze_in = <<>>
    /\ start = None
    /\ end_points = {}
    /\ search = AstarLocals(None)
    /\ stack = <<>>
    /\ mouse = None
    /\ stepper = None
    /\ game_state = GameState
    /\ pc = "create"

\* A handler of the loop has left the mouse with outcome r and the flags gs.
SimAfter(r, gs) ==
    /\ mouse' = r.self
    /\ game_state' = gs
    /\ pc' = IF r.raised = "" THEN "placed" ELSE "raised"
    /\ UNCHANGED <<maze, maze_in, start, end_points, search, gen_vars, stepper>>

\* MicromouseSimulation.update(), once per frame.
SimUpdate ==
    /\ pc = "placed"
    /\ LET u == Mouse_update(mouse, maze, end_points)
           explored == Mouse_update_returns(mouse, maze, end_points)
       IN  IF game_state.current_step
           THEN IF CanMove(mouse)
                THEN SimAfter(u, GameState_step_complete(game_state))
                ELSE SimAfter(Outcome(mouse, ""),
                              GameState_step_complete(game_state))
           ELSE IF game_state.simulation_running
           THEN SimAfter(u, IF u.raised = ""
                            THEN AddExplored(game_state, explored)
                            ELSE game_state)
           ELSE SimAfter(Outcome(mouse, ""), game_state)

\* MicromouseSimulation.step_forward(), the ">" button.
SimStepForward ==
    /\ pc = "placed"
    /\ LET u == Mouse_update(mouse, maze, end_points)
           explored == Mouse_update_returns(mouse, maze, end_points)
       IN  IF NoSearchYet(mouse)
           THEN SimAfter(u, IF u.raised = "" /\ explored # {}
                            THEN GameState_step_complete(
                                     AddExplored(game_state, explored))
                            ELSE game_state)
           ELSE IF CanMove(mouse)
           THEN SimAfter(Outcome(mouse, ""), GameState_step_forward(game_state))
           ELSE SimAfter(Outcome(mouse, ""), game_state)

\* MicromouseSimulation.step_backward(), the "<" button.
SimStepBackward ==
    /\ pc = "placed"
    /\ SimAfter(Mouse_go_back(mouse), GameState_stop_simulation(game_state))

\* The "Start" button.
SimStart ==
    /\ pc = "placed"
    /\ SimAfter(Outcome(mouse, ""), GameState_start_simulation(game_state))

\* The "Stop" button.
SimStop ==
    /\ pc = "placed"
    /\ SimAfter(Outcome(mouse, ""), GameState_stop_simulation(game_state))

\* MicromouseSimulation.reset_simulation(), the "Reset" button: a new maze
\* is made, by the steps of create_maze, before any other handler runs.
SimReset ==
    /\ pc = "placed"
    /\ maze' = <<>>
    /\ start' = None
    /\ end_points' = {}
    /\ mouse' = None
    /\ game_state' = GameState_reset(game_state)
    /\ pc' = "create"
    /\ UNCHANGED <<maze_in, search, gen_vars, stepper>>

NextSim ==
    \/ CreateMaze
    \/ CarveInto
    \/ CarveReturn
    \/ FindStartEnd
    \/ SimUpdate
    \/ SimStepForward
    \/ SimStepBackward
    \/ SimStart
    \/ SimStop
    \/ SimReset

SpecSim == InitSim /\ [][NextSim]_vars

\* A frame's update once the search has been made.
SimFrameAfterSearch == pc = "placed" /\ ~NoSearchYet(mouse) /\ SimUpdate

\* run() calls update() in every frame of its loop: an update that would
\* move the agent is not put off for ever.
SpecSimFair == SpecSim /\ WF_vars(SimFrameAfterSearch)

----------------------------------------------------------------------------
(* Claims about the driving loop, checked under SpecSim and SpecSimFair. *)

\* The mouse is where it was, or one cell farther along its path.
AtMostOneCell ==
    \/ mouse' = mouse
    \/ /\ mouse.path = <<>>
       /\ mouse'.pos = mouse.pos
       /\ mouse'.path_index = 0
    \/ /\ CanMove(mouse)
       /\ mouse'.path = mouse.path
       /\ mouse'.path_index = mouse.path_index + 1
       /\ mouse'.pos = mouse.path[mouse.path_index + 1]

\* What one call of MicromouseSimulation.update does.
UpdateSteps ==
    /\ AtMostOneCell
    /\ (~game_state.simulation_running /\ ~game_state.current_step)
          => mouse' = mouse /\ game_state' = game_state
    /\ game_state.current_step =>
          /\ ~game_state'.current_step
          /\ CanMove(mouse) => mouse'.path_index = mouse.path_index + 1
    /\ ~game_state.current_step => ~game_state'.current_step
    /\ game_state'.simulation_running = game_state.simulation_running

\* C30: each call of MicromouseSimulation.update moves the agent by at most
\* one cell of its path, and not at all when neither simulation_running nor
\* current_step is set; a call that finds current_step set takes the one
\* step and clears the flag, so that no second call steps for the same
\* request; and simulation_running and current_step are never both true.
C30_FrameStepping ==
    /\ [](pc = "placed" =>
             ~(game_state.simulation_running /\ game_state.current_step))
    /\ [][SimUpdate => UpdateSteps]_vars

\* A step was requested while the agent stood inside its path, two cells or
\* more from the start: the next update will take it.
C30_Witness ==
    /\ pc = "placed"
    /\ game_state.current_step
    /\ CachedPath(mouse)
    /\ mouse.path_index >= 2
    /\ mouse.path_index < Len(mouse.path)

\* The simulation runs continuously.
Running == pc = "placed" /\ game_state.simulation_running

\* The agent stands on a goal cell.
OnGoal == pc = "placed" /\ mouse.pos \in end_points

\* C26: on a generated maze, when update is called again and again and,
\* from some frame on, nothing stops the run (no step back, no reset, no
\* stop or single step), the agent eventually stands on a goal cell and
\* stays there.  The first call of a run searches and finds a path from the
\* cell the agent stands on; the agent stands on a goal exactly when its
\* cursor has reached len(path), that is after the planning call and
\* len(path) moving calls; and an update that finds it there leaves it as
\* it is.
C26_RunReachesGoal ==
    /\ <>[](Running /\ ~NoSearchYet(mouse)) => <>[]OnGoal
    /\ [][SimUpdate /\ Running /\ NoSearchYet(mouse)
             => /\ pc' = "placed"
                /\ CachedPath(mouse')
                /\ mouse'.path[1] = mouse.pos
                /\ mouse'.pos = mouse.pos
                /\ mouse'.path_index = 0]_vars
    /\ [](pc = "placed" /\ CachedPath(mouse)
             => (OnGoal <=> mouse.path_index = Len(mouse.path)))
    /\ [][SimUpdate /\ OnGoal => mouse' = mouse /\ pc' = "placed"]_vars

\* The run has brought the agent to a goal, five moving calls or more after
\* the planning call.
C26_Witness ==
    /\ Running
    /\ OnGoal
    /\ CachedPath(mouse)
    /\ mouse.path_index = Len(mouse.path)
    /\ Len(mouse.path) >= 5
    /\ Len(mouse.history) = Len(mouse.path) + 1

=============================================================================
